---- MODULE Spec2Model ----
(***************************************************************************)
(* Model of the meeting-rotation bot (src/main.py): the MeetingManager,    *)
(* its JSON data file, the wall clock it reads, and the command handlers   *)
(* and the monthly job that call it.                                       *)
(***************************************************************************)
EXTENDS Integers, Sequences, FiniteSets, TLC

(* ------------------------------ bounds --------------------------------- *)

\* The clock starts in month StartMonth of year BaseYear and is followed for
\* MaxTick month changes.
BaseYear == 2025
StartMonth == 2
MaxTick == 11

(* ------------------------- program constants --------------------------- *)

PARTICIPANTS == <<"Loic", "Harrison", "Marc", "Tanguy", "Ifeyi">>

MOIS_FR == [m \in 1..12 |->
    CASE m = 1 -> "janvier"   [] m = 2 -> "février"   [] m = 3 -> "mars"
      [] m = 4 -> "avril"     [] m = 5 -> "mai"       [] m = 6 -> "juin"
      [] m = 7 -> "juillet"   [] m = 8 -> "août"      [] m = 9 -> "septembre"
      [] m = 10 -> "octobre"  [] m = 11 -> "novembre" [] m = 12 -> "décembre"]

TOUR_1 == (11 :> "Tanguy") @@ (12 :> "Harrison") @@ (1 :> "Marc")
          @@ (2 :> "Loic") @@ (3 :> "Ifeyi")

\* Slip: the second table starts a month early and stops a month early.
TOUR_2_shifted == (3 :> "Ifeyi") @@ (4 :> "Loic") @@ (5 :> "Marc")
                  @@ (6 :> "Harrison") @@ (7 :> "Tanguy")

TOUR_2 == (4 :> "Ifeyi") @@ (5 :> "Loic") @@ (6 :> "Marc")
          @@ (7 :> "Harrison") @@ (8 :> "Tanguy")

\* The names random.choice(PARTICIPANTS) can return.
Choices == {PARTICIPANTS[i] : i \in DOMAIN PARTICIPANTS}

\* A dict with no entry.
EmptyDict == [k \in {} |-> ""]

\* The structure load_data returns without a file, and reset installs.
DefaultData == [history |-> EmptyDict, random_tours |-> EmptyDict, cycle_count |-> 0]

\* The data file before it was ever written.
NoFile == [kind |-> "absent", content |-> DefaultData]

\* The data file after a write was cut short: open(.., "w") has truncated it
\* and json.dump has not finished, so it holds no JSON document.
CorruptFile == [kind |-> "corrupt", content |-> DefaultData]

\* Months outside the calendar a caller may pass.
InvalidMonths == {0, 13}

\* What a handler reports when it returns no name / no planning.
NoName == ""
NoMonth == -1
NoPlanning == [cycle_name |-> "", lines |-> <<>>]

\* No /prochain answer is remembered.
NoPromise == [at |-> -1, name |-> NoName]

\* The number of handler coroutines the event loop can hold at once.
MaxTasks == 2

\* A slot of the event loop that holds no coroutine.
IdleTask == [pc |-> "idle", kind |-> "", months |-> <<>>, key |-> "",
             names |-> <<>>]

(* ------------------------------- state --------------------------------- *)

VARIABLES
    data,     \* manager.data, the in-memory dict
    file,     \* the data file: [kind, content]
    proc,     \* "up": manager constructed; "down": crashed; "failed": load raised
    tick,     \* months elapsed since the start of the run
    op,       \* the last operation
    arg,      \* the month the last operation passed to get_speaker_for_month
    key,      \* the random_tours key the last operation looked up ("" if none)
    ret,      \* the name the last operation returned (NoName if none)
    draws,    \* the number of random.choice calls of the last operation
    saves,    \* the number of save_data calls of the last operation
    plan,     \* the planning the last operation returned (NoPlanning if none)
    told,     \* key -> name returned to a caller since the last reset
    wiped,    \* the number of random_tours entries the last operation discarded
    err,      \* the exception the last operation raised ("" if none)
    promise,  \* what /prochain last answered: the tick it spoke of and the name
    tasks,    \* the handler coroutines of the event loop, by slot
    cur       \* the slot of the coroutine that holds the event loop (0: none)

vars == <<data, file, proc, tick, op, arg, key, ret, draws, saves, plan, told,
          wiped, err, promise, tasks, cur>>

(* ------------------------------ the clock ------------------------------ *)

\* datetime.now(TIMEZONE).month
NowMonth(t) == ((StartMonth - 1 + t) % 12) + 1

\* datetime.now().year, as a set: the years the call can return while
\* datetime.now(TIMEZONE).month is NowMonth(t). The call takes no zone, it
\* reads the year in the zone of the process: the year of the calendar in
\* TIMEZONE, except around the new year, where a process zone behind TIMEZONE
\* still reads the old year in January and a process zone ahead of TIMEZONE
\* already reads the new year in December.
NowYear(t) ==
    LET y == BaseYear + ((StartMonth - 1 + t) \div 12) IN
    {y} \cup (IF NowMonth(t) = 1 THEN {y - 1} ELSE {})
        \cup (IF NowMonth(t) = 12 THEN {y + 1} ELSE {})

(* ---------------------------- MeetingManager --------------------------- *)

\* Slip: a file that holds no JSON document is taken for a missing one.
LoadRaises_never(f) == FALSE

\* load_data: the parsed file if it exists, else the default structure.
\* json.load raises on a file that holds no JSON document (LoadRaises).
LoadRaises(f) == f.kind = "corrupt"

\* Slip: the file is never read back.
load_data_fresh(f) == DefaultData

load_data(f) == IF f.kind # "absent" THEN f.content ELSE DefaultData

\* save_data: the file is overwritten with the dump of the in-memory dict.
\* Keys and values are str, so json.load of the dump yields an equal dict.
save_data(d) == [kind |-> "json", content |-> d]

\* f"{year}-{month}"
KeyOf(year, month) == ToString(year) \o "-" \o ToString(month)

\* d["random_tours"][k] = v
SetTour(d, k, v) ==
    [d EXCEPT !.random_tours =
        [x \in (DOMAIN d.random_tours) \cup {k} |->
            IF x = k THEN v ELSE d.random_tours[x]]]

(* Variants of the code with one slip each, for the checks of the claims. *)

\* Slip: the presence test is dropped, every lookup draws again.
get_speaker_reroll(d, f, year, month, pick) ==
    IF month \in DOMAIN TOUR_1
    THEN [ret |-> TOUR_1[month], data |-> d, file |-> f, key |-> "",
          draws |-> 0, saves |-> 0]
    ELSE IF month \in DOMAIN TOUR_2
    THEN [ret |-> TOUR_2[month], data |-> d, file |-> f, key |-> "",
          draws |-> 0, saves |-> 0]
    ELSE LET k == KeyOf(year, month) IN
         LET d2 == SetTour(d, k, pick) IN
              [ret |-> d2.random_tours[k], data |-> d2, file |-> save_data(d2),
               key |-> k, draws |-> 1, saves |-> 1]

\* Slip: save_data is called on a hit as well.
get_speaker_resave(d, f, year, month, pick) ==
    IF month \in DOMAIN TOUR_1
    THEN [ret |-> TOUR_1[month], data |-> d, file |-> f, key |-> "",
          draws |-> 0, saves |-> 0]
    ELSE IF month \in DOMAIN TOUR_2
    THEN [ret |-> TOUR_2[month], data |-> d, file |-> f, key |-> "",
          draws |-> 0, saves |-> 0]
    ELSE LET k == KeyOf(year, month) IN
         IF k \notin DOMAIN d.random_tours
         THEN LET d2 == SetTour(d, k, pick) IN
              [ret |-> d2.random_tours[k], data |-> d2, file |-> save_data(d2),
               key |-> k, draws |-> 1, saves |-> 1]
         ELSE [ret |-> d.random_tours[k], data |-> d, file |-> save_data(d),
               key |-> k, draws |-> 0, saves |-> 1]

\* Slip: the lookup in TOUR_1 is missing.
get_speaker_nofixed(d, f, year, month, pick) ==
    IF month \in DOMAIN TOUR_2
    THEN [ret |-> TOUR_2[month], data |-> d, file |-> f, key |-> "",
          draws |-> 0, saves |-> 0]
    ELSE LET k == KeyOf(year, month) IN
         IF k \notin DOMAIN d.random_tours
         THEN LET d2 == SetTour(d, k, pick) IN
              [ret |-> d2.random_tours[k], data |-> d2, file |-> save_data(d2),
               key |-> k, draws |-> 1, saves |-> 1]
         ELSE [ret |-> d.random_tours[k], data |-> d, file |-> f, key |-> k,
               draws |-> 0, saves |-> 0]

\* Slip: the lookup in TOUR_2 is missing.
get_speaker_notour2(d, f, year, month, pick) ==
    IF month \in DOMAIN TOUR_1
    THEN [ret |-> TOUR_1[month], data |-> d, file |-> f, key |-> "",
          draws |-> 0, saves |-> 0]
    ELSE LET k == KeyOf(year, month) IN
         IF k \notin DOMAIN d.random_tours
         THEN LET d2 == SetTour(d, k, pick) IN
              [ret |-> d2.random_tours[k], data |-> d2, file |-> save_data(d2),
               key |-> k, draws |-> 1, saves |-> 1]
         ELSE [ret |-> d.random_tours[k], data |-> d, file |-> f, key |-> k,
               draws |-> 0, saves |-> 0]

\* Slip: the new entry is not saved.
get_speaker_nosave(d, f, year, month, pick) ==
    IF month \in DOMAIN TOUR_1
    THEN [ret |-> TOUR_1[month], data |-> d, file |-> f, key |-> "",
          draws |-> 0, saves |-> 0]
    ELSE IF month \in DOMAIN TOUR_2
    THEN [ret |-> TOUR_2[month], data |-> d, file |-> f, key |-> "",
          draws |-> 0, saves |-> 0]
    ELSE LET k == KeyOf(year, month) IN
         IF k \notin DOMAIN d.random_tours
         THEN LET d2 == SetTour(d, k, pick) IN
              [ret |-> d2.random_tours[k], data |-> d2, file |-> f,
               key |-> k, draws |-> 1, saves |-> 0]
         ELSE [ret |-> d.random_tours[k], data |-> d, file |-> f, key |-> k,
               draws |-> 0, saves |-> 0]

\* Slip: the key is built from the month alone.
get_speaker_monthkey(d, f, year, month, pick) ==
    IF month \in DOMAIN TOUR_1
    THEN [ret |-> TOUR_1[month], data |-> d, file |-> f, key |-> "",
          draws |-> 0, saves |-> 0]
    ELSE IF month \in DOMAIN TOUR_2
    THEN [ret |-> TOUR_2[month], data |-> d, file |-> f, key |-> "",
          draws |-> 0, saves |-> 0]
    ELSE LET k == ToString(month) IN
         IF k \notin DOMAIN d.random_tours
         THEN LET d2 == SetTour(d, k, pick) IN
              [ret |-> d2.random_tours[k], data |-> d2, file |-> save_data(d2),
               key |-> k, draws |-> 1, saves |-> 1]
         ELSE [ret |-> d.random_tours[k], data |-> d, file |-> f, key |-> k,
               draws |-> 0, saves |-> 0]

\* Slip: the key is returned instead of the entry.
get_speaker_retkey(d, f, year, month, pick) ==
    IF month \in DOMAIN TOUR_1
    THEN [ret |-> TOUR_1[month], data |-> d, file |-> f, key |-> "",
          draws |-> 0, saves |-> 0]
    ELSE IF month \in DOMAIN TOUR_2
    THEN [ret |-> TOUR_2[month], data |-> d, file |-> f, key |-> "",
          draws |-> 0, saves |-> 0]
    ELSE LET k == KeyOf(year, month) IN
         IF k \notin DOMAIN d.random_tours
         THEN LET d2 == SetTour(d, k, pick) IN
              [ret |-> k, data |-> d2, file |-> save_data(d2),
               key |-> k, draws |-> 1, saves |-> 1]
         ELSE [ret |-> k, data |-> d, file |-> f, key |-> k,
               draws |-> 0, saves |-> 0]

\* get_speaker_for_month(month) run on in-memory dict d and file f in year
\* `year`, where random.choice would return `pick`.
get_speaker_for_month(d, f, year, month, pick) ==
    IF month \in DOMAIN TOUR_1
    THEN [ret |-> TOUR_1[month], data |-> d, file |-> f, key |-> "",
          draws |-> 0, saves |-> 0]
    ELSE IF month \in DOMAIN TOUR_2
    THEN [ret |-> TOUR_2[month], data |-> d, file |-> f, key |-> "",
          draws |-> 0, saves |-> 0]
    ELSE LET k == KeyOf(year, month) IN
         IF k \notin DOMAIN d.random_tours
         THEN LET d2 == SetTour(d, k, pick) IN
              [ret |-> d2.random_tours[k], data |-> d2, file |-> save_data(d2),
               key |-> k, draws |-> 1, saves |-> 1]
         ELSE [ret |-> d.random_tours[k], data |-> d, file |-> f, key |-> k,
               draws |-> 0, saves |-> 0]

\* The results get_speaker_for_month(month) can have, over what random.choice
\* may return.
SpeakerOutcomes(d, f, year, month) ==
    {get_speaker_for_month(d, f, year, month, pick) : pick \in Choices}

\* Slip: December is followed by month 13.
NextMonthOf_nowrap(current_month) == current_month + 1

\* current_month + 1 if current_month < 12 else 1
NextMonthOf(current_month) == IF current_month < 12 THEN current_month + 1 ELSE 1

\* Slip: the first window is tested with <= 2.
PlanningCycle_off(current_month) ==
    IF current_month >= 11 \/ current_month <= 2
    THEN [months |-> <<11, 12, 1, 2, 3>>, tour_dict |-> TOUR_1,
          cycle_name |-> "ordre normal"]
    ELSE IF current_month <= 8
    THEN [months |-> <<4, 5, 6, 7, 8>>, tour_dict |-> TOUR_2,
          cycle_name |-> "ordre inversé"]
    ELSE [months |-> <<9, 10, 11, 12, 1>>, tour_dict |-> EmptyDict,
          cycle_name |-> "ordre normal (aléatoire jusqu'à nov)"]

\* The 5-month window, the table and the label get_planning picks for
\* current_month. tour_dict is None in the last case: an empty dict here, which
\* `if tour_dict:` tells from a table the same way.
PlanningCycle(current_month) ==
    IF current_month >= 11 \/ current_month <= 3
    THEN [months |-> <<11, 12, 1, 2, 3>>, tour_dict |-> TOUR_1,
          cycle_name |-> "ordre normal"]
    ELSE IF current_month <= 8
    THEN [months |-> <<4, 5, 6, 7, 8>>, tour_dict |-> TOUR_2,
          cycle_name |-> "ordre inversé"]
    ELSE [months |-> <<9, 10, 11, 12, 1>>, tour_dict |-> EmptyDict,
          cycle_name |-> "ordre normal (aléatoire jusqu'à nov)"]

\* dict.get(k, default)
DictGet(dict, k, default) == IF k \in DOMAIN dict THEN dict[k] ELSE default

\* str.capitalize on the strings get_planning applies it to: a month name of
\* MOIS_FR, or "?".
capitalize(name) ==
    CASE name = "janvier" -> "Janvier"     [] name = "février" -> "Février"
      [] name = "mars" -> "Mars"           [] name = "avril" -> "Avril"
      [] name = "mai" -> "Mai"             [] name = "juin" -> "Juin"
      [] name = "juillet" -> "Juillet"     [] name = "août" -> "Août"
      [] name = "septembre" -> "Septembre" [] name = "octobre" -> "Octobre"
      [] name = "novembre" -> "Novembre"   [] name = "décembre" -> "Décembre"
      [] OTHER -> name

\* The state get_planning's loop starts from.
PlanningStart(d, f, t) ==
    [lines |-> <<>>, data |-> d, file |-> f, draws |-> 0, saves |-> 0, told |-> t]

\* Slip: without a table the loop reads TOUR_1 instead of calling
\* get_speaker_for_month.
PlanningStep_nolookup(acc, tour_dict, year, current_month, m, pick) ==
    [lines |-> Append(acc.lines,
                 [mois |-> capitalize(DictGet(MOIS_FR, m, "?")),
                  speaker |-> DictGet(IF DOMAIN tour_dict # {} THEN tour_dict
                                      ELSE TOUR_1, m, "?"),
                  marker |-> (m = NextMonthOf(current_month))]),
     data |-> acc.data, file |-> acc.file, draws |-> acc.draws,
     saves |-> acc.saves, told |-> acc.told]

\* Slip: the marker is put on the current month.
PlanningStep_markcurrent(acc, tour_dict, year, current_month, m, pick) ==
    LET r == IF DOMAIN tour_dict # {}
             THEN [ret |-> DictGet(tour_dict, m, "?"), data |-> acc.data,
                   file |-> acc.file, key |-> "", draws |-> 0, saves |-> 0]
             ELSE get_speaker_for_month(acc.data, acc.file, year, m, pick)
    IN [lines |-> Append(acc.lines,
                    [mois |-> capitalize(DictGet(MOIS_FR, m, "?")), speaker |-> r.ret,
                     marker |-> (m = current_month)]),
        data |-> r.data, file |-> r.file,
        draws |-> acc.draws + r.draws, saves |-> acc.saves + r.saves,
        told |-> IF r.key = "" THEN acc.told
                 ELSE [x \in (DOMAIN acc.told) \cup {r.key} |->
                         IF x = r.key THEN r.ret ELSE acc.told[x]]]

\* One iteration of get_planning's loop, for month m, from loop state acc.
\* A line of the planning is kept as its three parts: the capitalized month
\* name, the speaker and whether the marker "PROCHAIN" is appended.
PlanningStep(acc, tour_dict, year, current_month, m, pick) ==
    LET r == IF DOMAIN tour_dict # {}
             THEN [ret |-> DictGet(tour_dict, m, "?"), data |-> acc.data,
                   file |-> acc.file, key |-> "", draws |-> 0, saves |-> 0]
             ELSE get_speaker_for_month(acc.data, acc.file, year, m, pick)
    IN [lines |-> Append(acc.lines,
                    [mois |-> capitalize(DictGet(MOIS_FR, m, "?")), speaker |-> r.ret,
                     marker |-> (m = NextMonthOf(current_month))]),
        data |-> r.data, file |-> r.file,
        draws |-> acc.draws + r.draws, saves |-> acc.saves + r.saves,
        told |-> IF r.key = "" THEN acc.told
                 ELSE [x \in (DOMAIN acc.told) \cup {r.key} |->
                         IF x = r.key THEN r.ret ELSE acc.told[x]]]

\* The first n iterations of get_planning's loop; picks[i] is what
\* random.choice would return in iteration i.
RECURSIVE PlanningLoop(_, _, _, _, _, _, _)
PlanningLoop(acc, months, tour_dict, year, current_month, picks, n) ==
    IF n = 0 THEN acc
    ELSE LET prev == PlanningLoop(acc, months, tour_dict, year, current_month,
                                  picks, n - 1)
         IN PlanningStep(prev, tour_dict, year, current_month, months[n], picks[n])

\* get_planning in month current_month of year `year`.
get_planning(d, f, t, year, current_month, picks) ==
    LET c == PlanningCycle(current_month)
        r == PlanningLoop(PlanningStart(d, f, t), c.months, c.tour_dict, year,
                          current_month, picks, Len(c.months))
    IN [cycle_name |-> c.cycle_name, lines |-> r.lines, data |-> r.data,
        file |-> r.file, draws |-> r.draws, saves |-> r.saves, told |-> r.told]

\* What random.choice may return in an iteration of get_planning's loop: with
\* a table the loop never calls it, one value stands for all.
PlanningPicks(current_month) ==
    IF DOMAIN PlanningCycle(current_month).tour_dict # {}
    THEN {CHOOSE p \in Choices : TRUE}
    ELSE Choices

\* The results get_planning can have, over what random.choice may return in
\* the two iterations that can call it.
PlanningOutcomes(d, f, t, year, current_month) ==
    {get_planning(d, f, t, year, current_month, <<p1, p2, p1, p1, p1>>) :
        p1 \in PlanningPicks(current_month), p2 \in PlanningPicks(current_month)}

\* Slip: the months before September are counted from September too.
get_cycle_type_nooffset(reference_month, t) ==
    LET m == IF reference_month = NoMonth THEN NowMonth(t) ELSE reference_month
        cycle_num == (m - 9) \div 5
    IN IF cycle_num % 2 = 0 THEN "normal" ELSE "inversé"

\* get_cycle_type: the label of the five-month window of reference_month
\* (NoMonth stands for None: the current month is taken).
get_cycle_type(reference_month, t) ==
    LET m == IF reference_month = NoMonth THEN NowMonth(t) ELSE reference_month
        cycle_num == IF m >= 9 THEN (m - 9) \div 5 ELSE (m + 3) \div 5
    IN IF cycle_num % 2 = 0 THEN "normal" ELSE "inversé"

\* Slip: reset empties history and keeps the random picks.
reset_keep(d) ==
    [data |-> [d EXCEPT !.history = EmptyDict, !.cycle_count = 0],
     file |-> save_data([d EXCEPT !.history = EmptyDict, !.cycle_count = 0])]

\* reset: the default structure replaces the dict and is saved.
reset(d) == [data |-> DefaultData, file |-> save_data(DefaultData)]

(* ------------------------------ actions -------------------------------- *)

\* What a caller learns: the name returned for key r.key, if a key was used.
Tell(t, r) ==
    IF r.key = "" THEN t
    ELSE [x \in (DOMAIN t) \cup {r.key} |-> IF x = r.key THEN r.ret ELSE t[x]]

\* The state after operation o called get_speaker_for_month(m) with result r.
Returned(o, m, r) ==
    /\ data' = r.data
    /\ file' = r.file
    /\ op' = o
    /\ arg' = m
    /\ key' = r.key
    /\ ret' = r.ret
    /\ draws' = r.draws
    /\ saves' = r.saves
    /\ plan' = NoPlanning
    /\ told' = Tell(told, r)
    /\ wiped' = 0
    /\ err' = ""
    /\ promise' = IF o = "prochain" THEN [at |-> tick + 1, name |-> r.ret]
                  ELSE promise
    /\ UNCHANGED <<proc, tick, tasks, cur>>

\* The state after an operation o that returns no name and discards nothing.
Silent(o) ==
    /\ op' = o
    /\ arg' = NoMonth
    /\ key' = ""
    /\ ret' = NoName
    /\ draws' = 0
    /\ plan' = NoPlanning
    /\ wiped' = 0
    /\ UNCHANGED <<tasks, cur>>

Init ==
    /\ data = load_data(NoFile)
    /\ file = NoFile
    /\ proc = "up"
    /\ tick = 0
    /\ op = "init"
    /\ arg = NoMonth
    /\ key = ""
    /\ ret = NoName
    /\ draws = 0
    /\ saves = 0
    /\ plan = NoPlanning
    /\ told = EmptyDict
    /\ wiped = 0
    /\ err = ""
    /\ promise = NoPromise
    /\ tasks = [t \in 1..MaxTasks |-> IdleTask]
    /\ cur = 0

\* /mois: get_speaker_current_month
Mois ==
    /\ proc = "up"
    /\ \E year \in NowYear(tick) :
         \E r \in SpeakerOutcomes(data, file, year, NowMonth(tick)) :
            Returned("mois", NowMonth(tick), r)

\* /prochain: get_next_speaker
Prochain ==
    /\ proc = "up"
    /\ \E year \in NowYear(tick) :
         \E r \in SpeakerOutcomes(data, file, year, NextMonthOf(NowMonth(tick))) :
            Returned("prochain", NextMonthOf(NowMonth(tick)), r)

\* The monthly job: monthly_announcement
Annonce ==
    /\ proc = "up"
    /\ \E year \in NowYear(tick) :
         \E r \in SpeakerOutcomes(data, file, year, NowMonth(tick)) :
            Returned("annonce", NowMonth(tick), r)

\* A direct call get_speaker_for_month(m), m a calendar month.
Resolve ==
    /\ proc = "up"
    /\ \E m \in 1..12 : \E year \in NowYear(tick) :
         \E r \in SpeakerOutcomes(data, file, year, m) :
            Returned("resolve", m, r)

\* A direct call get_speaker_for_month(m) with m outside the calendar.
ResolveInvalid ==
    /\ proc = "up"
    /\ \E m \in InvalidMonths : \E year \in NowYear(tick) :
         \E r \in SpeakerOutcomes(data, file, year, m) :
            Returned("resolve", m, r)

\* /planning: get_planning
Planning ==
    /\ proc = "up"
    /\ \E year \in NowYear(tick) :
       \E r \in PlanningOutcomes(data, file, told, year, NowMonth(tick)) :
         /\ data' = r.data
         /\ file' = r.file
         /\ op' = "planning"
         /\ arg' = NoMonth
         /\ key' = ""
         /\ ret' = NoName
         /\ draws' = r.draws
         /\ saves' = r.saves
         /\ plan' = [cycle_name |-> r.cycle_name, lines |-> r.lines]
         /\ told' = r.told
         /\ wiped' = 0
         /\ err' = ""
         /\ UNCHANGED <<proc, tick, promise, tasks, cur>>

\* /reset: manager.reset
Reset ==
    /\ proc = "up"
    /\ data' = reset(data).data
    /\ file' = reset(data).file
    /\ op' = "reset"
    /\ arg' = NoMonth
    /\ key' = ""
    /\ ret' = NoName
    /\ draws' = 0
    /\ saves' = 1
    /\ plan' = NoPlanning
    /\ told' = EmptyDict
    /\ wiped' = Cardinality(DOMAIN data.random_tours)
    /\ err' = ""
    /\ promise' = NoPromise
    /\ UNCHANGED <<proc, tick, tasks, cur>>

\* The process is started (again): MeetingManager() loads the data file.
Restart ==
    /\ IF LoadRaises(file)
       THEN proc' = "failed" /\ data' = DefaultData
       ELSE proc' = "up" /\ data' = load_data(file)
    /\ Silent("restart")
    /\ saves' = 0
    /\ err' = IF LoadRaises(file) THEN "JSONDecodeError" ELSE ""
    /\ UNCHANGED <<file, tick, told, promise>>

\* The clock moves to the next month, between two runs of the event loop's
\* coroutines.
Tick ==
    /\ tick < MaxTick
    /\ cur = 0
    /\ tick' = tick + 1
    /\ Silent("tick")
    /\ saves' = 0
    /\ err' = ""
    /\ promise' = IF promise.at < tick + 1 THEN NoPromise ELSE promise
    /\ UNCHANGED <<data, file, proc, told>>

\* The process is killed inside get_speaker_for_month(m): before the save the
\* file is as it was, inside the save it is cut short, after the save it is
\* written; no name reaches the caller.
CrashFilesSpeaker(d, f, year, m) ==
    UNION {IF r.saves = 0 THEN {f} ELSE {f, CorruptFile, r.file} :
             r \in SpeakerOutcomes(d, f, year, m)}

\* The same inside get_planning, in any iteration of its loop.
CrashFilesPlanning(d, f, t, year, current_month) ==
    LET c == PlanningCycle(current_month) IN
    UNION {LET before == PlanningLoop(PlanningStart(d, f, t), c.months, c.tour_dict,
                                      year, current_month, <<p1, p2, p1, p1, p1>>, n - 1)
               after == PlanningStep(before, c.tour_dict, year, current_month,
                                     c.months[n], <<p1, p2, p1, p1, p1>>[n])
           IN IF after.saves = before.saves THEN {before.file}
              ELSE {before.file, CorruptFile, after.file} :
             p1 \in PlanningPicks(current_month),
             p2 \in PlanningPicks(current_month), n \in 1..Len(c.months)}

\* The state after the process was killed leaving file f2.
Killed(f2) ==
    /\ file' = f2
    /\ proc' = "down"
    /\ data' = DefaultData
    /\ Silent("crash")
    /\ saves' = 0
    /\ err' = ""
    /\ promise' = NoPromise
    /\ UNCHANGED tick

\* The process is killed while a handler runs get_speaker_for_month.
CrashSpeaker ==
    /\ proc = "up"
    /\ \E m \in {NowMonth(tick), NextMonthOf(NowMonth(tick))} :
         \E year \in NowYear(tick) :
            \E f2 \in CrashFilesSpeaker(data, file, year, m) : Killed(f2)
    /\ UNCHANGED told

\* The process is killed while /planning runs get_planning.
CrashPlanning ==
    /\ proc = "up"
    /\ \E year \in NowYear(tick) :
         \E f2 \in CrashFilesPlanning(data, file, told, year, NowMonth(tick)) :
            Killed(f2)
    /\ UNCHANGED told

\* The process is killed while /reset runs reset: before the save (nothing
\* is reset), inside it, or after it.
CrashReset ==
    /\ proc = "up"
    /\ \/ Killed(file) /\ UNCHANGED told
       \/ Killed(CorruptFile) /\ told' = EmptyDict
       \/ Killed(reset(data).file) /\ told' = EmptyDict

\* The files save_data can leave when it raises OSError: open(.., "w") failed
\* and the file is as it was, or the write failed after the truncation.
FailedSaveFiles(f) == {f, CorruptFile}

\* Handler o calls get_speaker_for_month(m), the key is missing and save_data
\* raises: the entry stays in the dict and the exception leaves the handler.
SpeakerSaveFails(o, m) ==
    \E year \in NowYear(tick) : \E r \in SpeakerOutcomes(data, file, year, m) :
        /\ r.saves > 0
        /\ data' = r.data
        /\ file' \in FailedSaveFiles(file)
        /\ op' = o
        /\ arg' = m
        /\ key' = r.key
        /\ ret' = NoName
        /\ draws' = r.draws
        /\ saves' = r.saves
        /\ plan' = NoPlanning
        /\ wiped' = 0
        /\ err' = "OSError"
        /\ UNCHANGED <<proc, tick, told, promise, tasks, cur>>

\* /mois, /prochain or the monthly job, with save_data raising.
SaveFails ==
    /\ proc = "up"
    /\ \/ SpeakerSaveFails("mois", NowMonth(tick))
       \/ SpeakerSaveFails("prochain", NextMonthOf(NowMonth(tick)))
       \/ SpeakerSaveFails("annonce", NowMonth(tick))

\* What get_planning leaves when save_data raises in its n-th iteration, the
\* iterations before it having gone through: the new entry is in the dict, the
\* file is as the last save that went through left it, or cut short. Only an
\* iteration whose lookup uses a key can save.
PlanningSaveFailOutcomes(d, f, t, year, current_month) ==
    LET c == PlanningCycle(current_month)
        keyed == {i \in 1 .. Len(c.months) :
                    get_speaker_for_month(d, f, year, c.months[i], NoName).key # ""}
    IN
    IF DOMAIN c.tour_dict # {} THEN {}
    ELSE UNION {
           LET acc == PlanningLoop(PlanningStart(d, f, t), c.months, c.tour_dict,
                                   year, current_month,
                                   <<p1, p2, p1, p1, p1>>, n - 1)
               r == get_speaker_for_month(acc.data, acc.file, year,
                                          c.months[n], <<p1, p2, p1, p1, p1>>[n])
           IN IF r.saves = 0 THEN {}
              ELSE {[data |-> r.data, file |-> f2,
                     draws |-> acc.draws + r.draws,
                     saves |-> acc.saves + r.saves] :
                       f2 \in FailedSaveFiles(acc.file)} :
           n \in keyed, p1 \in Choices, p2 \in Choices}

\* /planning with save_data raising in one of its lookups: the exception
\* leaves get_planning and the handler, no reply is sent.
PlanningSaveFails ==
    /\ proc = "up"
    /\ \E year \in NowYear(tick) :
       \E r \in PlanningSaveFailOutcomes(data, file, told, year, NowMonth(tick)) :
         /\ data' = r.data
         /\ file' = r.file
         /\ draws' = r.draws
         /\ saves' = r.saves
    /\ op' = "planning"
    /\ arg' = NoMonth
    /\ key' = ""
    /\ ret' = NoName
    /\ plan' = NoPlanning
    /\ wiped' = 0
    /\ err' = "OSError"
    /\ UNCHANGED <<proc, tick, told, promise, tasks, cur>>

\* /reset with save_data raising: the dict is emptied, the file is not.
ResetSaveFails ==
    /\ proc = "up"
    /\ data' = reset(data).data
    /\ file' \in FailedSaveFiles(file)
    /\ op' = "reset"
    /\ arg' = NoMonth
    /\ key' = ""
    /\ ret' = NoName
    /\ draws' = 0
    /\ saves' = 1
    /\ plan' = NoPlanning
    /\ told' = EmptyDict
    /\ wiped' = Cardinality(DOMAIN data.random_tours)
    /\ err' = "OSError"
    /\ promise' = NoPromise
    /\ UNCHANGED <<proc, tick, tasks, cur>>

Next ==
    \/ Mois
    \/ Prochain
    \/ Annonce
    \/ Resolve
    \/ Planning
    \/ Reset
    \/ Restart
    \/ Tick

\* The bot and its callers, every operation running to completion.
Spec == Init /\ [][Next]_vars

NextCrash ==
    \/ Mois
    \/ Prochain
    \/ Annonce
    \/ Planning
    \/ Reset
    \/ Restart
    \/ Tick
    \/ CrashSpeaker
    \/ CrashPlanning
    \/ CrashReset

\* The bot as main() runs it (the handlers and the monthly job are the only
\* callers), with the process killed at any point of any operation.
SpecCrash == Init /\ [][NextCrash]_vars

NextInvalid ==
    \/ Resolve
    \/ ResolveInvalid
    \/ Reset
    \/ Restart

\* Direct calls of get_speaker_for_month, months outside 1..12 included.
SpecInvalid == Init /\ [][NextInvalid]_vars

NextSaveFail ==
    \/ Mois
    \/ Prochain
    \/ Annonce
    \/ Planning
    \/ Reset
    \/ Tick
    \/ SaveFails
    \/ PlanningSaveFails
    \/ ResetSaveFails

\* The handlers of main() and the monthly job, with save_data failing at any
\* call.
SpecSaveFail == Init /\ [][NextSaveFail]_vars

(* The handlers as coroutines of one event loop. A coroutine runs until it
   awaits; get_speaker_for_month, get_planning and reset hold no await, the
   only await of a handler is the one that sends its reply. *)

\* Slip: the event loop may switch coroutines after every statement.
Yields_everywhere(pc) == TRUE

\* The positions where a coroutine gives the event loop back: the await of
\* its reply and its end.
Yields(pc) == pc \in {"send", "idle"}

\* The handlers the event loop can start.
Handlers == {"mois", "prochain", "planning", "annonce", "reset"}

\* The months handler `kind` asks get_speaker_for_month for, in order
\* (get_planning asks only when it has no table).
LookupMonths(kind, current_month) ==
    CASE kind \in {"mois", "annonce"} -> <<current_month>>
      [] kind = "prochain" -> <<NextMonthOf(current_month)>>
      [] kind = "planning" ->
            IF DOMAIN PlanningCycle(current_month).tour_dict # {} THEN <<>>
            ELSE PlanningCycle(current_month).months
      [] OTHER -> <<>>

\* Where a handler stands once the lookups `months` are left to make.
AfterLookup(months) == IF months = <<>> THEN "send" ELSE "check"

\* Coroutine t moves to r, the others stay; t keeps the event loop unless it
\* yields at r.
Run(t, r) ==
    /\ tasks' = [tasks EXCEPT ![t] = r]
    /\ cur' = IF Yields(r.pc) THEN 0 ELSE t

\* Coroutine t after get_speaker_for_month returned `name` for key k.
Given(t, k, name) ==
    [tasks[t] EXCEPT
        !.months = Tail(@),
        !.key = "",
        !.names = [x \in (DOMAIN @) \cup {k} |-> IF x = k THEN name ELSE @[x]],
        !.pc = AfterLookup(Tail(tasks[t].months))]

\* The event loop starts a handler in the first free slot; the handler runs
\* up to its first lookup, or to its reply if it makes none.
Dispatch(t) ==
    /\ proc = "up"
    /\ cur = 0
    /\ tasks[t].pc = "idle"
    /\ \A u \in 1 .. (t - 1) : tasks[u].pc # "idle"
    /\ \E kind \in Handlers :
          LET ms == LookupMonths(kind, NowMonth(tick)) IN
          Run(t, [IdleTask EXCEPT
                    !.kind = kind,
                    !.months = ms,
                    !.pc = IF kind = "reset" THEN "reset" ELSE AfterLookup(ms)])
    /\ UNCHANGED <<data, file, proc, tick, op, arg, key, ret, draws, saves,
                   plan, told, wiped, err, promise>>

\* get_speaker_for_month up to its test of the store: a month of a table is
\* answered at once, a stored key is returned, a missing key leads to the draw.
Check(t) ==
    /\ cur \in {0, t}
    /\ tasks[t].pc = "check"
    /\ \E year \in NowYear(tick) :
       LET m == Head(tasks[t].months)
           k == KeyOf(year, m)
       IN IF m \in (DOMAIN TOUR_1) \cup (DOMAIN TOUR_2)
          THEN /\ Run(t, [tasks[t] EXCEPT
                            !.months = Tail(@),
                            !.pc = AfterLookup(Tail(tasks[t].months))])
               /\ told' = told
          ELSE IF k \notin DOMAIN data.random_tours
          THEN /\ Run(t, [tasks[t] EXCEPT !.key = k, !.pc = "draw"])
               /\ told' = told
          ELSE /\ Run(t, Given(t, k, data.random_tours[k]))
               /\ told' = Tell(told, [key |-> k, ret |-> data.random_tours[k]])
    /\ UNCHANGED <<data, file, proc, tick, op, arg, key, ret, draws, saves,
                   plan, wiped, err, promise>>

\* self.data["random_tours"][key] = random.choice(PARTICIPANTS)
Draw(t) ==
    /\ cur \in {0, t}
    /\ tasks[t].pc = "draw"
    /\ \E pick \in Choices : data' = SetTour(data, tasks[t].key, pick)
    /\ Run(t, [tasks[t] EXCEPT !.pc = "save"])
    /\ UNCHANGED <<file, proc, tick, op, arg, key, ret, draws, saves, plan,
                   told, wiped, err, promise>>

\* self.save_data(), then the return of the stored name.
Save(t) ==
    /\ cur \in {0, t}
    /\ tasks[t].pc = "save"
    /\ file' = save_data(data)
    /\ LET name == DictGet(data.random_tours, tasks[t].key, NoName) IN
          /\ Run(t, Given(t, tasks[t].key, name))
          /\ told' = Tell(told, [key |-> tasks[t].key, ret |-> name])
    /\ UNCHANGED <<data, proc, tick, op, arg, key, ret, draws, saves, plan,
                   wiped, err, promise>>

\* reset: the default structure replaces the dict. The names the other
\* coroutines hold were given before this reset: they are no longer counted.
DoReset(t) ==
    /\ cur \in {0, t}
    /\ tasks[t].pc = "reset"
    /\ data' = reset(data).data
    /\ told' = EmptyDict
    /\ tasks' = [u \in 1 .. MaxTasks |->
                    IF u = t THEN [tasks[u] EXCEPT !.pc = "rsave"]
                    ELSE [tasks[u] EXCEPT !.names = EmptyDict]]
    /\ cur' = IF Yields("rsave") THEN 0 ELSE t
    /\ UNCHANGED <<file, proc, tick, op, arg, key, ret, draws, saves, plan,
                   wiped, err, promise>>

\* reset: self.save_data()
SaveReset(t) ==
    /\ cur \in {0, t}
    /\ tasks[t].pc = "rsave"
    /\ file' = save_data(data)
    /\ Run(t, [tasks[t] EXCEPT !.pc = "send"])
    /\ UNCHANGED <<data, proc, tick, op, arg, key, ret, draws, saves, plan,
                   told, wiped, err, promise>>

\* The awaited reply is sent and the handler ends.
Sent(t) ==
    /\ cur \in {0, t}
    /\ tasks[t].pc = "send"
    /\ Run(t, IdleTask)
    /\ UNCHANGED <<data, file, proc, tick, op, arg, key, ret, draws, saves,
                   plan, told, wiped, err, promise>>

NextAsync ==
    \/ \E t \in 1 .. MaxTasks : Dispatch(t)
    \/ \E t \in 1 .. MaxTasks : Check(t)
    \/ \E t \in 1 .. MaxTasks : Draw(t)
    \/ \E t \in 1 .. MaxTasks : Save(t)
    \/ \E t \in 1 .. MaxTasks : DoReset(t)
    \/ \E t \in 1 .. MaxTasks : SaveReset(t)
    \/ \E t \in 1 .. MaxTasks : Sent(t)
    \/ Tick

\* The handlers and the monthly job as coroutines of the event loop main()
\* runs, interleaved at their awaits.
SpecAsync == Init /\ [][NextAsync]_vars

\* manager.get_cycle_type(reference_month), or with no argument.
CycleType ==
    /\ proc = "up"
    /\ \E m \in (1 .. 12) \cup {NoMonth} :
          /\ op' = "cycle"
          /\ arg' = m
          /\ ret' = get_cycle_type(m, tick)
    /\ key' = ""
    /\ draws' = 0
    /\ saves' = 0
    /\ plan' = NoPlanning
    /\ wiped' = 0
    /\ err' = ""
    /\ UNCHANGED <<data, file, proc, tick, told, promise, tasks, cur>>

NextCycle ==
    \/ CycleType
    \/ Tick

\* Calls of get_cycle_type in every month of the year.
SpecCycle == Init /\ [][NextCycle]_vars

(* ------------------------------- claims -------------------------------- *)

\* The operations that return the result of one get_speaker_for_month call.
ResolverOps == {"mois", "prochain", "annonce", "resolve"}

\* What C1 requires of one step.
C1_Step ==
    op' # "reset" =>
        \A k \in DOMAIN data.random_tours :
            /\ k \in DOMAIN data'.random_tours
            /\ data'.random_tours[k] = data.random_tours[k]
            /\ (op' \in ResolverOps /\ key' = k => ret' = data.random_tours[k])

\* C1: in any step that is not a reset (and Spec has no crash), every entry
\* of random_tours stays, with its value, and a lookup of its key returns
\* that value.
C1_AssignmentStable == [][C1_Step]_vars

\* A repeated lookup: /prochain found the key stored and returned its value.
C1_Witness ==
    /\ op = "prochain"
    /\ key # ""
    /\ draws = 0
    /\ ret = data.random_tours[key]

\* What C2 requires of one step.
C2_Step ==
    (op' \in ResolverOps /\ key' # "" /\ key' \in DOMAIN data.random_tours) =>
        /\ ret' = data.random_tours[key']
        /\ draws' = 0
        /\ saves' = 0
        /\ data' = data
        /\ file' = file

\* C2: a lookup whose key is already in random_tours returns the stored value,
\* draws nothing, saves nothing and leaves the dict and the file as they were.
C2_HitLeavesStateAlone == [][C2_Step]_vars

\* The lookup of month 9 in 2025 with "2025-9" -> "Marc" stored.
C2_Witness ==
    /\ op = "resolve"
    /\ arg = 9
    /\ key = "2025-9"
    /\ draws = 0
    /\ ret = "Marc"
    /\ data.random_tours["2025-9"] = "Marc"

\* What C3 requires of one step.
C3_Step ==
    op' \in ResolverOps =>
        /\ arg' \in {11, 12, 1, 2, 3} =>
              ret' = TOUR_1[arg'] /\ data' = data /\ file' = file
        /\ arg' \in {4, 5, 6, 7, 8} =>
              ret' = TOUR_2[arg'] /\ data' = data /\ file' = file

\* C3: for a month of table 1 (11, 12, 1, 2, 3) or of table 2 (4, 5, 6, 7, 8)
\* the lookup returns the table's entry, in every year and from every stored
\* state, and leaves the dict and the file as they were.
C3_FixedMonths == [][C3_Step]_vars

\* Month 4 looked up in the second year with random picks stored.
C3_Witness ==
    /\ op = "resolve"
    /\ arg = 4
    /\ ret = "Ifeyi"
    /\ NowYear(tick) = {BaseYear, BaseYear + 1}
    /\ DOMAIN data.random_tours # {}

\* C4: between operations (writes succeeding), what load_data would read from
\* the file is the in-memory dict.
C4_FileMatchesMemory ==
    proc = "up" => ~LoadRaises(file) /\ load_data(file) = data

\* A new pick was just drawn and written.
C4_Witness ==
    /\ draws = 1
    /\ saves = 1
    /\ file.kind = "json"
    /\ file.content = data
    /\ key \in DOMAIN data.random_tours

\* What C5 requires of one step.
C5_Step ==
    /\ proc' = "up" =>
          /\ ~LoadRaises(file') /\ load_data(file') = data'
          /\ \A k \in DOMAIN told' :
                k \in DOMAIN data'.random_tours /\ data'.random_tours[k] = told'[k]
    /\ (op' \in ResolverOps /\ key' \in DOMAIN told) =>
          ret' = told[key'] /\ draws' = 0

\* C5: with the process killed and restarted at any point, a running process
\* holds no pick the file lacks, every name told to a caller since the last
\* reset is the stored one, and a lookup of a told key returns the told name
\* without a draw.
C5_ToldNamesSurviveRestart == [][C5_Step]_vars

\* After a kill that lost a reply but not the write, the process is restarted
\* and holds the told names.
C5_Witness ==
    /\ op = "restart"
    /\ proc = "up"
    /\ DOMAIN told # {}
    /\ DOMAIN data.random_tours # DOMAIN told
    /\ \A k \in DOMAIN told : data.random_tours[k] = told[k]

\* What C6 requires of one step.
C6_Step ==
    /\ op' = "reset" =>
          /\ data'.random_tours = EmptyDict
          /\ data'.history = EmptyDict
          /\ data'.cycle_count = 0
          /\ file'.kind = "json"
          /\ file'.content = data'
    /\ (op = "reset" /\ op' \in ResolverOps /\ key' # "") =>
          /\ draws' = 1
          /\ saves' = 1
          /\ key' \in DOMAIN file'.content.random_tours
          /\ file'.content.random_tours[key'] = ret'

\* C6: right after reset the dict and the file hold the empty structure, and
\* the next lookup of a random month draws a new name and writes it.
C6_ResetEmptiesState == [][C6_Step]_vars

\* A reset that discarded stored picks.
C6_Witness ==
    /\ op = "reset"
    /\ wiped > 0
    /\ data.random_tours = EmptyDict
    /\ file.content.random_tours = EmptyDict

\* What C7 requires of one step.
C7_Step ==
    (op' \in ResolverOps /\ arg' \in {9, 10}) =>
        \E Y \in NowYear(tick) :
        LET k == ToString(Y) \o "-" \o ToString(arg') IN
        /\ key' = k
        /\ DOMAIN data'.random_tours = (DOMAIN data.random_tours) \cup {k}
        /\ \A x \in DOMAIN data.random_tours :
              data'.random_tours[x] = data.random_tours[x]
        /\ ret' = data'.random_tours[k]

\* C7: a lookup of a random month in year Y uses the key "{Y}-{month}" only:
\* it returns that entry, adds it if missing and leaves every other entry.
C7_OneKeyPerYearAndMonth == [][C7_Step]_vars

\* September of two years stored with different names, the second just drawn.
C7_Witness ==
    /\ op = "resolve"
    /\ key = "2026-9"
    /\ draws = 1
    /\ "2025-9" \in DOMAIN data.random_tours
    /\ data.random_tours["2025-9"] # data.random_tours["2026-9"]

\* What C8 requires of one step.
C8_Step ==
    (op' = "resolve" /\ arg' \notin 1..12) =>
        ret' = NoName /\ data' = data /\ file' = file

\* C8: a lookup of a month outside 1..12 returns no name and leaves the dict
\* and the file as they were.
C8_InvalidMonthRejected == [][C8_Step]_vars

\* C9: a lookup of a month in 1..12 returns one participant: table 1's entry,
\* else table 2's, else the stored entry; every stored value is a participant.
C9_OneParticipant ==
    /\ Cardinality(Choices) = 5
    /\ \A k \in DOMAIN data.random_tours : data.random_tours[k] \in Choices
    /\ (op \in ResolverOps /\ arg \in 1..12) =>
          /\ ret \in Choices
          /\ ret = IF arg \in DOMAIN TOUR_1 THEN TOUR_1[arg]
                   ELSE IF arg \in DOMAIN TOUR_2 THEN TOUR_2[arg]
                   ELSE data.random_tours[key]

\* October was looked up and a participant drawn for it.
C9_Witness ==
    /\ op = "mois"
    /\ arg = 10
    /\ draws = 1
    /\ ret \in Choices

\* The month names and speakers of a planning, in order.
PlanMonths(p) == [i \in DOMAIN p.lines |-> p.lines[i].mois]
PlanSpeakers(p) == [i \in DOMAIN p.lines |-> p.lines[i].speaker]

\* What C10 requires of one step.
C10_Step ==
    op' = "planning" =>
        /\ NowMonth(tick) \in {11, 12, 1, 2, 3} =>
              /\ plan'.cycle_name = "ordre normal"
              /\ PlanMonths(plan') =
                    <<"Novembre", "Décembre", "Janvier", "Février", "Mars">>
              /\ PlanSpeakers(plan') =
                    <<TOUR_1[11], TOUR_1[12], TOUR_1[1], TOUR_1[2], TOUR_1[3]>>
              /\ data' = data /\ file' = file
        /\ NowMonth(tick) \in {4, 5, 6, 7, 8} =>
              /\ plan'.cycle_name = "ordre inversé"
              /\ PlanMonths(plan') = <<"Avril", "Mai", "Juin", "Juillet", "Août">>
              /\ PlanSpeakers(plan') =
                    <<TOUR_2[4], TOUR_2[5], TOUR_2[6], TOUR_2[7], TOUR_2[8]>>
              /\ data' = data /\ file' = file
        /\ NowMonth(tick) \notin {9, 10} =>
              \A i \in DOMAIN plan'.lines : plan'.lines[i].speaker # "?"

\* C10: in months 11, 12, 1, 2, 3 the planning is labelled "ordre normal" and
\* lists November..March with table 1's speakers; in months 4..8 it is labelled
\* "ordre inversé" and lists April..August with table 2's speakers; "?" is
\* never shown and the dict and the file are as they were.
C10_FixedPlanning == [][C10_Step]_vars

\* The planning of a month of table 2, asked with random picks stored.
C10_Witness ==
    /\ op = "planning"
    /\ plan.cycle_name = "ordre inversé"
    /\ Len(plan.lines) = 5
    /\ DOMAIN data.random_tours # {}

\* What C11 requires of one step.
C11_Step ==
    (op' = "planning" /\ NowMonth(tick) \in {9, 10}) =>
        \E Y \in NowYear(tick) :
        LET k9 == ToString(Y) \o "-9"
            k10 == ToString(Y) \o "-10"
        IN /\ plan'.cycle_name = "ordre normal (aléatoire jusqu'à nov)"
           /\ PlanMonths(plan') =
                 <<"Septembre", "Octobre", "Novembre", "Décembre", "Janvier">>
           /\ file'.kind = "json"
           /\ \A k \in {k9, k10} :
                 /\ k \in DOMAIN data'.random_tours
                 /\ k \in DOMAIN file'.content.random_tours
                 /\ file'.content.random_tours[k] = data'.random_tours[k]
                 /\ k \in DOMAIN data.random_tours =>
                       data'.random_tours[k] = data.random_tours[k]
           /\ PlanSpeakers(plan') =
                 <<data'.random_tours[k9], data'.random_tours[k10],
                   TOUR_1[11], TOUR_1[12], TOUR_1[1]>>

\* C11: in months 9 and 10 the planning is labelled "ordre normal (aléatoire
\* jusqu'à nov)" and lists September..January; on return "{year}-9" and
\* "{year}-10" are in the dict and in the file, an entry that existed keeps
\* its value, the two lines show the stored names and the other three show
\* table 1's names.
C11_RandomPlanning == [][C11_Step]_vars

\* A planning of September or October that found one of the two picks stored
\* and drew the other.
C11_Witness ==
    /\ op = "planning"
    /\ plan.cycle_name = "ordre normal (aléatoire jusqu'à nov)"
    /\ draws = 1
    /\ saves = 1
    /\ Cardinality(DOMAIN data.random_tours) >= 2

\* What C13 requires of one step.
C13_Step ==
    /\ op' = "prochain" =>
          /\ arg' = IF NowMonth(tick) = 12 THEN 1 ELSE NowMonth(tick) + 1
          /\ key' # "" =>
                /\ NowYear(tick) = NowYear(tick + 1)
                /\ \E Y \in NowYear(tick + 1) :
                      key' = ToString(Y) \o "-" \o ToString(arg')
                /\ Cardinality(NowYear(tick + 1)) = 1
    /\ (op' \in {"mois", "annonce"} /\ promise.at = tick) =>
          ret' = promise.name

\* C13: /prochain looks up month current+1 (1 after 12) under the key of the
\* year that month falls in, and the name it gave while the clock was one
\* month earlier is the name /mois and the monthly job give now, no reset or
\* crash having happened since.
C13_NextMonthKept == [][C13_Step]_vars

\* /mois gives for a random month the name /prochain gave the month before.
C13_Witness ==
    /\ op = "mois"
    /\ key # ""
    /\ promise.at = tick
    /\ ret = promise.name

\* What C14 requires of a lookup answered from the dict: the file holds the
\* name (a file cut short by a failed write tells nothing and is left out).
C14_Step ==
    (op' \in ResolverOps /\ err' = "" /\ key' # "" /\ draws' = 0
       /\ file.kind # "corrupt") =>
        /\ key' \in DOMAIN load_data(file).random_tours
        /\ load_data(file).random_tours[key'] = ret'

\* C14: a draw whose save_data failed is not taken as committed: no later
\* lookup is answered from the dict as a plain hit with a name the file does
\* not hold. (The claim's other parts: the OSError does leave the handler; the
\* file is as it was only when open() failed.)
C14_FailedSaveNotCommitted == [][C14_Step]_vars

\* What C15 requires of one step.
C15_Step ==
    /\ op' = "restart" =>
          /\ file.kind = "absent" =>
                /\ proc' = "up"
                /\ data' = [history |-> EmptyDict, random_tours |-> EmptyDict,
                            cycle_count |-> 0]
          /\ file.kind = "json" => proc' = "up" /\ data' = file.content
          /\ file.kind = "corrupt" => proc' = "failed" /\ err' # ""
    /\ proc = "failed" => op' \in {"restart", "tick"}

\* C15: at startup load_data gives the default structure when there is no
\* file and the stored dict when there is one; when the file cannot be parsed
\* the startup fails, and a process whose load failed serves no operation.
C15_LoadAtStartup == [][C15_Step]_vars

\* A startup that failed on a file cut short.
C15_Witness ==
    /\ op = "restart"
    /\ proc = "failed"
    /\ file.kind = "corrupt"
    /\ err = "JSONDecodeError"

\* The month get_cycle_type classified in the last operation.
C16_Month == IF arg = NoMonth THEN NowMonth(tick) ELSE arg

\* The window index the specification gives for C16_Month.
C16_windowIndex ==
    IF C16_Month >= 9 THEN (C16_Month - 9) \div 5 ELSE (C16_Month + 3) \div 5

\* C16: for every month in 1..12 the label is "normal" when windowIndex is
\* even and "inversé" (inverted) when it is odd; September to January are in
\* window 0 and labelled "normal", February to June are in window 1 and
\* labelled inverted, July and August are in window 2 and labelled "normal".
C16_CycleLabel ==
    op = "cycle" =>
        /\ C16_Month \in 1 .. 12
        /\ ret = (IF C16_windowIndex % 2 = 0 THEN "normal" ELSE "inversé")
        /\ C16_Month \in {9, 10, 11, 12, 1} =>
              C16_windowIndex = 0 /\ ret = "normal"
        /\ C16_Month \in {2, 3, 4, 5, 6} => ret = "inversé"
        /\ C16_Month \in {7, 8} => ret = "normal"

\* January classified as "normal", through the argument.
C16_Witness ==
    /\ op = "cycle"
    /\ arg = 1
    /\ ret = "normal"
    /\ NowMonth(tick) = 4

\* The months that have an entry in one of the two fixed tables.
C17_FixedMonths == (DOMAIN TOUR_1) \cup (DOMAIN TOUR_2)

\* C17 as stated: the two fixed tables are disjoint, each maps exactly 5
\* distinct months, and together they cover 8 of the 12 months, leaving 4
\* months without a fixed entry (the months whose lookup uses a key).
C17_TablesCoverEight ==
    /\ (DOMAIN TOUR_1) \cap (DOMAIN TOUR_2) = {}
    /\ Cardinality(DOMAIN TOUR_1) = 5
    /\ Cardinality(DOMAIN TOUR_2) = 5
    /\ Cardinality(C17_FixedMonths) = 8
    /\ Cardinality((1 .. 12) \ C17_FixedMonths) = 4
    /\ (op \in ResolverOps /\ arg \in 1 .. 12 /\ key # "") =>
          arg \notin C17_FixedMonths

\* C17, amended: the two fixed tables are disjoint, each maps exactly 5
\* distinct months of 1..12, and together they cover 10 of the 12 months,
\* leaving 2 months (September and October) without a fixed entry; a lookup
\* of a month in 1..12 uses a random_tours key exactly for these two months.
C17_TablesCoverTen ==
    /\ (DOMAIN TOUR_1) \cap (DOMAIN TOUR_2) = {}
    /\ Cardinality(DOMAIN TOUR_1) = 5
    /\ Cardinality(DOMAIN TOUR_2) = 5
    /\ C17_FixedMonths \subseteq 1 .. 12
    /\ Cardinality(C17_FixedMonths) = 10
    /\ (1 .. 12) \ C17_FixedMonths = {9, 10}
    /\ (op \in ResolverOps /\ arg \in 1 .. 12) =>
          /\ key # "" <=> arg \notin C17_FixedMonths
          /\ key # "" <=> arg \in {9, 10}

\* A lookup of October, which neither table holds, answered from the store.
C17_Witness ==
    /\ op \in ResolverOps
    /\ arg = 10
    /\ arg \notin C17_FixedMonths
    /\ key = "2025-10"
    /\ ret \in Choices

\* The entries of the last planning that carry the marker "PROCHAIN".
C18_Flagged == {i \in DOMAIN plan.lines : plan.lines[i].marker}

\* The displayed name of the month after the one the planning was built in.
C18_NextName ==
    <<"Février", "Mars", "Avril", "Mai", "Juin", "Juillet", "Août",
      "Septembre", "Octobre", "Novembre", "Décembre", "Janvier">>[NowMonth(tick)]

\* C18 as stated: for every currentMonth in 1..12 the planning flags exactly
\* one entry of the displayed window, the month currentMonth+1 (December
\* wraps to January).
C18_ExactlyOneFlagged ==
    op = "planning" =>
        /\ Cardinality(C18_Flagged) = 1
        /\ \A i \in C18_Flagged : plan.lines[i].mois = C18_NextName

\* C18, amended: the planning flags at most one entry, and a flagged entry is
\* the month currentMonth+1 (December wraps to January); exactly one entry is
\* flagged when that month is in the displayed window, and none in March and
\* August, whose next month opens the following window.
C18_NextFlagged ==
    op = "planning" =>
        /\ Cardinality(C18_Flagged) <= 1
        /\ \A i \in C18_Flagged : plan.lines[i].mois = C18_NextName
        /\ \A i \in DOMAIN plan.lines :
              plan.lines[i].mois = C18_NextName => i \in C18_Flagged
        /\ NowMonth(tick) \notin {3, 8} => Cardinality(C18_Flagged) = 1
        /\ NowMonth(tick) \in {3, 8} => C18_Flagged = {}

\* A planning built in December, with January flagged.
C18_Witness ==
    /\ op = "planning"
    /\ NowMonth(tick) = 12
    /\ C18_Flagged = {3}
    /\ plan.lines[3].mois = "Janvier"

\* The keys "{year}-9" and "{year}-10" of the years the process has read.
C19_Keys ==
    UNION {{ToString(y) \o "-9", ToString(y) \o "-10"} :
             y \in UNION {NowYear(t) : t \in 0 .. tick}}

\* Dict d has the three fields, an empty history, a zero cycle_count and only
\* September and October keys, each mapped to a participant.
C19_Shaped(d) ==
    /\ DOMAIN d = {"history", "random_tours", "cycle_count"}
    /\ d.history = EmptyDict
    /\ d.cycle_count = 0
    /\ DOMAIN d.random_tours \subseteq C19_Keys
    /\ \A k \in DOMAIN d.random_tours : d.random_tours[k] \in Choices

\* C19: in every state reached from the empty default state by operations
\* called with months in 1..12, every key of random_tours is "{year}-9" or
\* "{year}-10", history is empty and cycle_count is 0, and the dict in memory
\* and the one in the file keep the three fields, after reset too.
C19_StateShape ==
    /\ C19_Shaped(data)
    /\ file.kind = "json" => C19_Shaped(file.content)
    /\ op = "reset" => data.random_tours = EmptyDict

\* Both keys of two years stored, after lookups of every kind.
C19_Witness ==
    /\ DOMAIN data.random_tours = {"2025-9", "2025-10", "2026-9", "2026-10"}
    /\ file.kind = "json"
    /\ file.content = data
    /\ op = "resolve"
    /\ arg \in {9, 10}

\* The coroutines that stand inside get_speaker_for_month, between its test
\* of the store and its return.
C12_InResolver == {t \in 1 .. MaxTasks : tasks[t].pc \in {"draw", "save"}}

\* What C12 requires of one step: while a coroutine is between the test and
\* the return no other coroutine moves; a draw is made only for a key that
\* has no name since the last reset; a name given for a key is the one given
\* before for that key since the last reset; and the names the coroutines
\* were given since the last reset agree.
C12_Step ==
    /\ \A t \in C12_InResolver : \A u \in 1 .. MaxTasks :
          u # t => tasks'[u] = tasks[u]
    /\ \A t \in 1 .. MaxTasks :
          (tasks[t].pc = "draw" /\ tasks'[t].pc = "save") =>
              /\ tasks[t].key \notin DOMAIN data.random_tours
              /\ tasks[t].key \notin DOMAIN told
    /\ \A t \in 1 .. MaxTasks :
          \A k \in (DOMAIN tasks'[t].names) \ (DOMAIN tasks[t].names) :
              /\ tasks'[t].names[k] \in Choices
              /\ k \in DOMAIN told => told[k] = tasks'[t].names[k]
    /\ \A t \in 1 .. MaxTasks : \A u \in 1 .. MaxTasks :
          \A k \in (DOMAIN tasks'[t].names) \cap (DOMAIN tasks'[u].names) :
              tasks'[t].names[k] = tasks'[u].names[k]

\* C12: under every interleaving of the handlers and the monthly job at their
\* awaits, the check-draw-store-save sequence of get_speaker_for_month for a
\* key is never interleaved with another call; between two resets at most one
\* draw is made per key and no two callers are given different names for the
\* same key.
C12_ResolverNotInterleaved == [][C12_Step]_vars

\* Two handlers suspended at their replies with the same name for the same
\* key, one of them having drawn it.
C12_Witness ==
    /\ tasks[1].pc = "send"
    /\ tasks[2].pc = "send"
    /\ tasks[1].kind = "prochain"
    /\ tasks[2].kind = "annonce"
    /\ DOMAIN tasks[1].names = {"2025-10"}
    /\ tasks[2].names = tasks[1].names

====
